---- MODULE Spec2Model ----
(***************************************************************************)
(* A model of the Databricks chatbot: the serving-endpoint wrapper         *)
(* (src/src/databricks/sdk_wrapper.py), the Dash UI component              *)
(* (src/src/ui/chatbot.py) and the interactive CLI (src/src/cli/main.py).  *)
(*                                                                         *)
(* Three programs share the wrapper; `mode` says which one a behaviour is  *)
(* about: "query" is one call of query_endpoint taken step by step, "ui"   *)
(* is one browser session of the Dash component, "cli" is one run of       *)
(* interactive_chat_mode.  "reply" is the callers' reply extraction        *)
(* applied to one returned value, "respond" is one invocation of           *)
(* handle_assistant_response, and "startup" is the module body of          *)
(* src/app.py, which ends in "aborted", in "notice" or in "ui".            *)
(***************************************************************************)
EXTENDS Integers, Sequences, FiniteSets, TLC

VARIABLES
    mode,           \* which program: "query", "ui", "cli", "reply", "respond", "startup"
    \* ---- one call of _query_endpoint (mode "query")
    ep_task,        \* the task type the platform reports for the endpoint now
    q_pc,           \* position in _query_endpoint
    q_messages,     \* the messages argument
    q_max_tokens,   \* the max_tokens argument
    q_vtask,        \* what is_endpoint_supported fetched (line 15)
    q_task,         \* task_type fetched inside the try block (line 44)
    q_inputs,       \* the envelope handed to predict
    q_predicts,     \* number of predict invocations of this call
    q_res,          \* res, the raw value predict returned
    q_branch,       \* the response-handling branch that ran
    q_out,          \* how the call ended: a returned value or a raised exception
    q_reconf,       \* number of reconfigurations of the endpoint during the call
    \* ---- the Dash component's properties in the browser (mode "ui")
    store,          \* chat-history-store.data
    display,        \* chat-history.children
    user_input,     \* user-input.value
    trigger,        \* assistant-trigger.data
    send_disabled,  \* send-button.disabled
    status_class,   \* status-indicator.className
    status_text,    \* status-text.children
    modal_open,     \* clear-modal.is_open
    send_clicks,    \* send-button.n_clicks
    user_submit,    \* user-input.n_submit
    clear_clicks,   \* clear-confirm.n_clicks
    reqs,           \* handle_user_input invocations sent to the server, not yet answered
    calls,          \* handle_assistant_response invocations waiting for the endpoint
    last,           \* the latest finished endpoint call of the UI: arguments and outcome
    \* ---- interactive_chat_mode (mode "cli")
    cli_pc,         \* "prompt" | "query" | "done"
    cli_input,      \* user_input, the latest answer to Prompt.ask
    chat_history,   \* the loop's chat_history list
    cli_out,        \* what the loop printed last
    cli_response,   \* how the loop's call of query_endpoint ended, once it has
    cli_raw,        \* what predict did in the loop's latest endpoint call, if it was reached
    cli_turns,      \* number of prompts answered
    \* ---- reply extraction applied to one result of query_endpoint (mode "reply")
    r_response,     \* the value query_endpoint returned
    r_ui,           \* what _call_model_endpoint made of it, once it has run
    r_cli,          \* what the CLI loop made of it, once it has run
    \* ---- start-up of the Dash application, src/app.py (mode "startup")
    serving_endpoint,   \* os.getenv('SERVING_ENDPOINT')
    endpoint_supported, \* the module's endpoint_supported, once line 35 has run
    app_layout,         \* app.layout: "none" | "notice" | "chat"
    app_out             \* the exception that ended start-up, if one did

qvars == <<ep_task, q_pc, q_messages, q_max_tokens, q_vtask, q_task, q_inputs, q_predicts,
           q_res, q_branch, q_out, q_reconf>>
uivars == <<store, display, user_input, trigger, send_disabled, status_class,
            status_text, modal_open, send_clicks, user_submit, clear_clicks,
            reqs, calls, last>>
clivars == <<cli_pc, cli_input, chat_history, cli_out, cli_response, cli_raw, cli_turns>>
rvars == <<r_response, r_ui, r_cli>>
avars == <<serving_endpoint, endpoint_supported, app_layout, app_out>>
vars == <<mode, qvars, uivars, clivars, rvars, avars>>

-----------------------------------------------------------------------------
(* Bounds of the model.                                                    *)

MaxItems == 2        \* longest list inside a generated raw response
MaxClicks == 3       \* clicks of Send, presses of Enter and confirmed clears, together
MaxPending == 2      \* callback invocations the server has not answered yet
MaxReconf == 1       \* reconfigurations of the endpoint during one call
MaxCliTurns == 3     \* prompts answered in one CLI session

(* max_tokens as the callers pass it.                                      *)
UI_MAX_TOKENS == 512
CLI_MAX_TOKENS == 512
TEST_MAX_TOKENS == 100

(* The budgets query_endpoint is called with.                              *)
TokenBudgets == {UI_MAX_TOKENS, CLI_MAX_TOKENS, TEST_MAX_TOKENS}

-----------------------------------------------------------------------------
(* Python values.  A raw endpoint response is untyped, so every value      *)
(* carries its type: isinstance(v, dict) is v.t = "dict", "k" in v is      *)
(* k \in DOMAIN v.d.                                                       *)

PyStr(s) == [t |-> "str", s |-> s]
PyNone == [t |-> "none"]
PyInt(n) == [t |-> "int", n |-> n]
PyList(items) == [t |-> "list", items |-> items]
PyDict(d) == [t |-> "dict", d |-> d]

IsDict(v) == v.t = "dict"
IsList(v) == v.t = "list"
IsStr(v) == v.t = "str"
Has(v, k) == k \in DOMAIN v.d

(* Truthiness, as `not x` / `if x` read it.                                *)
Truthy(v) ==
    CASE v.t = "str" -> v.s # ""
      [] v.t = "none" -> FALSE
      [] v.t = "int" -> v.n # 0
      [] v.t = "list" -> v.items # <<>>
      [] v.t = "dict" -> DOMAIN v.d # {}

(* A call either returns a value or raises an exception with a message.   *)
Ok(v) == [ok |-> TRUE, val |-> v]
Raise(m) == [ok |-> FALSE, exc |-> m]

(* str(v).  Dict keys are rendered in the order below: every dict of the   *)
(* model was built in that order.                                          *)
KeyOrder == <<"messages", "choices", "content", "output", "role", "message",
              "text", "unexpected">>

Digits == "0123456789"

RECURSIVE IntStr(_)
IntStr(n) ==
    IF n < 10 THEN SubSeq(Digits, n + 1, n + 1)
    ELSE IntStr(n \div 10) \o SubSeq(Digits, (n % 10) + 1, (n % 10) + 1)

RECURSIVE Repr(_)
RECURSIVE ReprItems(_)
RECURSIVE ReprPairs(_, _)

ReprItems(items) ==
    IF items = <<>> THEN ""
    ELSE IF Len(items) = 1 THEN Repr(items[1])
    ELSE Repr(items[1]) \o ", " \o ReprItems(Tail(items))

ReprPairs(d, keys) ==
    IF keys = <<>> THEN ""
    ELSE LET one == "'" \o keys[1] \o "': " \o Repr(d[keys[1]])
         IN IF Len(keys) = 1 THEN one
            ELSE one \o ", " \o ReprPairs(d, Tail(keys))

Repr(v) ==
    CASE v.t = "str" -> "'" \o v.s \o "'"
      [] v.t = "none" -> "None"
      [] v.t = "int" -> IntStr(v.n)
      [] v.t = "list" -> "[" \o ReprItems(v.items) \o "]"
      [] v.t = "dict" ->
            "{" \o ReprPairs(v.d, SelectSeq(KeyOrder, LAMBDA k : k \in DOMAIN v.d)) \o "}"

Str(v) == IF v.t = "str" THEN v.s ELSE Repr(v)

-----------------------------------------------------------------------------
(* src/src/databricks/sdk_wrapper.py                                       *)

EndpointName == "ep"

supported_task_types ==
    {"agent/v1/chat", "agent/v2/chat", "llm/v1/chat",
     "agent/v1/supervisor", "agent/v2/supervisor", "agent/v1/responses"}

(* Task types the platform may report: the supported ones and some others. *)
TaskTypes ==
    supported_task_types \cup {"llm/v1/completions", "llm/v1/embeddings"}

(* The allow-list as it was before supervisor and responses endpoints      *)
(* were added to it.                                                       *)
is_endpoint_supported_chat_only(task_type) ==
    task_type \in {"agent/v1/chat", "agent/v2/chat", "llm/v1/chat"}

(* is_endpoint_supported, applied to the task type it fetched.             *)
is_endpoint_supported(task_type) == task_type \in supported_task_types

UnsupportedMessage ==
    "Detected unsupported endpoint type for this basic chatbot template. "
    \o "This chatbot template only supports chat completions-compatible endpoints. "
    \o "For a richer chatbot template with support for all conversational endpoints on Databricks, "
    \o "see https://docs.databricks.com/aws/en/generative-ai/agent-framework/chat-app"

(* A validation that reports nothing.                                      *)
validate_endpoint_task_type_silent(task_type) == Ok(PyNone)

(* _validate_endpoint_task_type: returns None or raises.                   *)
validate_endpoint_task_type(task_type) ==
    IF ~is_endpoint_supported(task_type) THEN Raise(UnsupportedMessage)
    ELSE Ok(PyNone)

(* An envelope that asks every endpoint not to stream.                     *)
Inputs_stream_off(task_type, messages, max_tokens) ==
    IF task_type = "agent/v1/responses"
    THEN [input |-> messages, max_output_tokens |-> max_tokens, stream |-> FALSE]
    ELSE [messages |-> messages, max_tokens |-> max_tokens, stream |-> FALSE]

(* The request envelope, lines 46-66.                                      *)
Inputs(task_type, messages, max_tokens) ==
    IF task_type \in {"agent/v1/supervisor", "agent/v2/supervisor"}
    THEN [messages |-> messages, max_tokens |-> max_tokens, stream |-> FALSE]
    ELSE IF task_type = "agent/v1/responses"
    THEN [input |-> messages, max_output_tokens |-> max_tokens, stream |-> FALSE]
    ELSE [messages |-> messages, max_tokens |-> max_tokens]

(* v[0] and v["k"] as Python evaluates them on a value of any type; the    *)
(* exception text is str(e).                                               *)
Index0(v) ==
    CASE v.t = "list" ->
            IF v.items = <<>> THEN Raise("list index out of range")
            ELSE Ok(v.items[1])
      [] v.t = "str" ->
            IF v.s = "" THEN Raise("string index out of range")
            ELSE Ok(PyStr(SubSeq(v.s, 1, 1)))
      [] v.t = "dict" -> Raise("0")
      [] v.t = "none" -> Raise("'NoneType' object is not subscriptable")
      [] v.t = "int" -> Raise("'int' object is not subscriptable")

GetItem(v, k) ==
    CASE v.t = "dict" ->
            IF Has(v, k) THEN Ok(v.d[k]) ELSE Raise("'" \o k \o "'")
      [] v.t = "list" -> Raise("list indices must be integers or slices, not str")
      [] v.t = "str" -> Raise("string indices must be integers, not 'str'")
      [] v.t = "none" -> Raise("'NoneType' object is not subscriptable")
      [] v.t = "int" -> Raise("'int' object is not subscriptable")

(* res["choices"][0]["message"], line 78.                                  *)
first_choice_message(res) ==
    LET first == Index0(res.d.choices)
    IN IF first.ok THEN GetItem(first.val, "message") ELSE first

(* A loop that reads the role without a default: items without role are   *)
(* skipped.                                                                *)
RECURSIVE output_messages_role_required(_)
output_messages_role_required(output) ==
    IF output = <<>> THEN <<>>
    ELSE LET output_item == Head(output)
             rest == output_messages_role_required(Tail(output))
         IN IF /\ IsDict(output_item)
               /\ Has(output_item, "content")
               /\ Has(output_item, "role")
               /\ IsList(output_item.d.content)
               /\ Len(output_item.d.content.items) > 0
               /\ IsDict(output_item.d.content.items[1])
               /\ Has(output_item.d.content.items[1], "text")
            THEN <<PyDict([role |-> output_item.d.role,
                           content |-> output_item.d.content.items[1].d.text])>>
                 \o rest
            ELSE rest

(* The loop over res["output"], lines 83-94.                               *)
RECURSIVE output_messages(_)
output_messages(output) ==
    IF output = <<>> THEN <<>>
    ELSE LET output_item == Head(output)
             rest == output_messages(Tail(output))
         IN IF /\ IsDict(output_item)
               /\ Has(output_item, "content")
               /\ IsList(output_item.d.content)
               /\ Len(output_item.d.content.items) > 0
               /\ IsDict(output_item.d.content.items[1])
               /\ Has(output_item.d.content.items[1], "text")
            THEN <<PyDict([role |-> IF Has(output_item, "role")
                                    THEN output_item.d.role
                                    ELSE PyStr("assistant"),
                           content |-> output_item.d.content.items[1].d.text])>>
                 \o rest
            ELSE rest

(* Which branch of the if/elif chain of lines 74-104 handles res.          *)
Branch(res) ==
    IF IsDict(res)
    THEN IF Has(res, "messages") THEN "messages"
         ELSE IF Has(res, "choices") THEN "choices"
         ELSE IF Has(res, "content") THEN "content"
         ELSE IF Has(res, "output") /\ IsList(res.d.output) THEN "output"
         ELSE "passthrough"
    ELSE "nondict"

(* A handling that keeps only the last of the messages.                    *)
handle_response_last_message(res) ==
    IF IsDict(res) /\ Has(res, "messages") /\ IsList(res.d.messages)
       /\ Len(res.d.messages.items) > 1
    THEN Ok(PyDict([messages |->
                      PyList(<<res.d.messages.items[Len(res.d.messages.items)]>>)]))
    ELSE Ok(res)

(* Lines 74-104: what the response handling returns or raises for res.     *)
handle_response(res) ==
    LET b == Branch(res)
    IN CASE b = "messages" -> Ok(res)
         [] b = "choices" ->
              LET m == first_choice_message(res)
              IN IF m.ok THEN Ok(PyDict([messages |-> PyList(<<m.val>>)])) ELSE m
         [] b = "content" -> Ok(res)
         [] b = "output" ->
              LET output_msgs == output_messages(res.d.output.items)
              IN IF output_msgs # <<>>
                 THEN Ok(PyDict([messages |-> PyList(output_msgs)]))
                 ELSE Ok(PyDict([content |-> PyStr(Str(res))]))
         [] b = "passthrough" -> Ok(res)
         [] b = "nondict" -> Ok(PyDict([content |-> PyStr(Str(res))]))

(* The except clause, lines 106-108.                                       *)
FailedToCall(endpoint_name, e) ==
    Raise("Failed to call endpoint " \o endpoint_name \o ": " \o e.exc)

(* _query_endpoint as a whole.  env holds what the platform does during    *)
(* the call: vfetch and fetch are the outcomes of the two                  *)
(* _get_endpoint_task_type calls, predict the outcome of predict.          *)
query_endpoint(endpoint_name, messages, max_tokens, env) ==
    IF ~env.vfetch.ok THEN env.vfetch
    ELSE IF ~validate_endpoint_task_type(env.vfetch.val).ok
    THEN validate_endpoint_task_type(env.vfetch.val)
    ELSE LET body == IF ~env.fetch.ok THEN env.fetch
                     ELSE IF ~env.predict.ok THEN env.predict
                     ELSE handle_response(env.predict.val)
         IN IF body.ok THEN body ELSE FailedToCall(endpoint_name, body)

-----------------------------------------------------------------------------
(* Raw responses the endpoint may return.                                  *)

SeqsUpTo(S, n) == UNION {[1..k -> S] : k \in 0..n}

Msg(role, content) == PyDict([role |-> PyStr(role), content |-> PyStr(content)])

TextPart(text) == PyDict([text |-> PyStr(text)])

MsgElems ==
    { Msg("user", "hi"), Msg("assistant", "hello"), Msg("assistant", "bye"),
      PyDict([role |-> PyStr("assistant")]),
      PyDict([role |-> PyStr("user")]),
      PyDict([content |-> PyStr("raw")]),
      PyDict([role |-> PyStr("assistant"), content |-> PyList(<<TextPart("hello")>>)]),
      PyStr("oops") }

MessagesVals == {PyList(s) : s \in SeqsUpTo(MsgElems, MaxItems)} \cup {PyNone}

ChoiceElems ==
    { PyDict([message |-> Msg("assistant", "hello")]),
      PyDict([message |-> Msg("assistant", "bye")]),
      PyDict([text |-> PyStr("hello")]),
      PyNone }

ChoicesVals ==
    {PyList(s) : s \in SeqsUpTo(ChoiceElems, MaxItems)} \cup {PyNone, PyStr("")}

ContentVals ==
    { PyStr("hello"), PyStr(""), PyNone, PyList(<<TextPart("hello")>>) }

OutputElems ==
    { PyDict([role |-> PyStr("assistant"), content |-> PyList(<<TextPart("hello")>>)]),
      PyDict([content |-> PyList(<<TextPart("bye"), TextPart("more")>>)]),
      PyDict([role |-> PyStr("assistant"), content |-> PyList(<<>>)]),
      PyDict([role |-> PyStr("assistant"), content |-> PyStr("plain")]),
      PyDict([role |-> PyStr("assistant"), content |-> PyList(<<PyStr("plain")>>)]),
      PyDict([role |-> PyStr("assistant")]),
      PyStr("oops") }

OutputVals ==
    {PyList(s) : s \in SeqsUpTo(OutputElems, MaxItems)} \cup {PyNone, PyStr("text")}

FourKeys == {"messages", "choices", "content", "output"}

ValsOf(k) ==
    CASE k = "messages" -> MessagesVals
      [] k = "choices" -> ChoicesVals
      [] k = "content" -> ContentVals
      [] k = "output" -> OutputVals

(* For dicts holding several of the four keys, a few values of each.       *)
CoreValsOf(k) ==
    CASE k = "messages" -> {PyList(<<>>), PyList(<<Msg("assistant", "hello")>>)}
      [] k = "choices" ->
            {PyList(<<>>), PyList(<<PyDict([message |-> Msg("assistant", "bye")])>>)}
      [] k = "content" -> {PyStr("hello"), PyNone}
      [] k = "output" ->
            {PyStr("text"),
             PyList(<<PyDict([content |-> PyList(<<TextPart("bye")>>)])>>)}

SingleKeyDicts ==
    UNION {{PyDict([x \in {k} |-> v]) : v \in ValsOf(k)} : k \in FourKeys}

MultiKeyDicts ==
    UNION {{PyDict(f) : f \in {g \in [K -> UNION {CoreValsOf(k) : k \in K}] :
                                 \A k \in K : g[k] \in CoreValsOf(k)}}
           : K \in {K \in SUBSET FourKeys : Cardinality(K) >= 2}}

OtherDicts ==
    { PyDict([unexpected |-> PyStr("shape")]),
      PyDict([x \in {} |-> PyNone]) }

NonDicts == { PyNone, PyStr("plain text"), PyInt(7), PyList(<<Msg("assistant", "hello")>>) }

Responses == SingleKeyDicts \cup MultiKeyDicts \cup OtherDicts \cup NonDicts

(* Outcomes of predict: a raw response, or a platform or transport error.  *)
PredictOutcomes == {Ok(r) : r \in Responses} \cup {Raise("connection timed out")}

(* Outcomes of _get_endpoint_task_type when the platform reports task.     *)
FetchOutcomes(task) == {Ok(task), Raise("endpoint not found")}

-----------------------------------------------------------------------------
(* Conversations: lists of {'role': ..., 'content': ...} turns as the UI   *)
(* and the CLI build them.                                                 *)

Turn(role, content) == [role |-> role, content |-> content]

Conversations ==
    { <<Turn("user", PyStr("hi"))>>,
      <<Turn("user", PyStr("hi")), Turn("assistant", PyStr("hello")),
        Turn("user", PyStr("yo"))>> }

Unset == [t |-> "unset"]
NoCall == [t |-> "none"]
NoTask == "-"

QIdle ==
    /\ ep_task = NoTask
    /\ q_pc = "idle"
    /\ q_messages = <<>>
    /\ q_max_tokens = 0
    /\ q_vtask = NoTask
    /\ q_task = NoTask
    /\ q_inputs = <<>>
    /\ q_predicts = 0
    /\ q_res = Unset
    /\ q_branch = "-"
    /\ q_out = Unset
    /\ q_reconf = 0

UIIdle ==
    /\ store = <<>>
    /\ display = <<>>
    /\ user_input = PyNone
    /\ trigger = PyNone
    /\ send_disabled = FALSE
    /\ status_class = "status-indicator"
    /\ status_text = "Connected"
    /\ modal_open = FALSE
    /\ send_clicks = 0
    /\ user_submit = 0
    /\ clear_clicks = 0
    /\ reqs = <<>>
    /\ calls = <<>>
    /\ last = NoCall

AIdle ==
    /\ serving_endpoint = Unset
    /\ endpoint_supported = Unset
    /\ app_layout = "none"
    /\ app_out = Unset

RIdle ==
    /\ r_response = Unset
    /\ r_ui = Unset
    /\ r_cli = Unset

CliIdle ==
    /\ cli_pc = "idle"
    /\ cli_input = Unset
    /\ chat_history = <<>>
    /\ cli_out = "-"
    /\ cli_response = Unset
    /\ cli_raw = Unset
    /\ cli_turns = 0

-----------------------------------------------------------------------------
(* One call of _query_endpoint(endpoint_name, messages, max_tokens), step  *)
(* by step, with the platform free to reconfigure the endpoint meanwhile.  *)

InitQuery ==
    /\ mode = "query"
    /\ ep_task \in TaskTypes
    /\ q_pc = "start"
    /\ q_messages \in Conversations
    /\ q_max_tokens \in TokenBudgets
    /\ q_vtask = NoTask
    /\ q_task = NoTask
    /\ q_inputs = <<>>
    /\ q_predicts = 0
    /\ q_res = Unset
    /\ q_branch = "-"
    /\ q_out = Unset
    /\ q_reconf = 0
    /\ UIIdle
    /\ CliIdle
    /\ RIdle
    /\ AIdle

(* Line 40: _validate_endpoint_task_type(endpoint_name), outside the try.  *)
QValidate ==
    /\ mode = "query"
    /\ q_pc = "start"
    /\ \E f \in FetchOutcomes(ep_task) :
          IF ~f.ok
          THEN /\ q_out' = f
               /\ q_pc' = "raised"
               /\ UNCHANGED q_vtask
          ELSE /\ q_vtask' = f.val
               /\ IF validate_endpoint_task_type(f.val).ok
                  THEN /\ q_pc' = "validated"
                       /\ UNCHANGED q_out
                  ELSE /\ q_pc' = "raised"
                       /\ q_out' = validate_endpoint_task_type(f.val)
    /\ UNCHANGED <<mode, avars, rvars, ep_task, q_messages, q_max_tokens, q_task, q_inputs,
                   q_predicts, q_res,
                   q_branch, q_reconf, uivars, clivars>>

(* The platform changes the endpoint's task type while the call runs.      *)
QReconfigure ==
    /\ mode = "query"
    /\ q_pc \in {"start", "validated"}
    /\ q_reconf < MaxReconf
    /\ \E t \in TaskTypes \ {ep_task} : ep_task' = t
    /\ q_reconf' = q_reconf + 1
    /\ UNCHANGED <<mode, avars, rvars, q_pc, q_messages, q_max_tokens, q_vtask, q_task, q_inputs,
                   q_predicts,
                   q_res, q_branch, q_out, uivars, clivars>>

(* Lines 44-71: fetch the task type, build the envelope, call predict.     *)
QPredict ==
    /\ mode = "query"
    /\ q_pc = "validated"
    /\ \E f \in FetchOutcomes(ep_task) :
          IF ~f.ok
          THEN /\ q_out' = FailedToCall(EndpointName, f)
               /\ q_pc' = "raised"
               /\ UNCHANGED <<q_task, q_inputs, q_predicts, q_res>>
          ELSE /\ q_task' = f.val
               /\ q_inputs' = Inputs(f.val, q_messages, q_max_tokens)
               /\ q_predicts' = q_predicts + 1
               /\ \E p \in PredictOutcomes :
                     IF p.ok
                     THEN /\ q_res' = p.val
                          /\ q_pc' = "predicted"
                          /\ UNCHANGED q_out
                     ELSE /\ q_out' = FailedToCall(EndpointName, p)
                          /\ q_pc' = "raised"
                          /\ UNCHANGED q_res
    /\ UNCHANGED <<mode, avars, rvars, ep_task, q_messages, q_max_tokens, q_vtask, q_branch,
                   q_reconf,
                   uivars, clivars>>

(* A handler that normalizes in place, rewriting res to the returned form. *)
QRespond_in_place ==
    /\ mode = "query"
    /\ q_pc = "predicted"
    /\ q_branch' = Branch(q_res)
    /\ LET r == handle_response(q_res)
       IN IF r.ok
          THEN /\ q_out' = r
               /\ q_res' = r.val
               /\ q_pc' = "returned"
          ELSE /\ q_out' = FailedToCall(EndpointName, r)
               /\ q_pc' = "raised"
               /\ UNCHANGED q_res
    /\ UNCHANGED <<mode, avars, rvars, ep_task, q_messages, q_max_tokens, q_vtask, q_task, q_inputs,
                   q_predicts, q_reconf, uivars, clivars>>

(* Lines 73-108: handle the response; an exception is re-raised wrapped.   *)
QRespond ==
    /\ mode = "query"
    /\ q_pc = "predicted"
    /\ q_branch' = Branch(q_res)
    /\ LET r == handle_response(q_res)
       IN IF r.ok
          THEN /\ q_out' = r
               /\ q_pc' = "returned"
          ELSE /\ q_out' = FailedToCall(EndpointName, r)
               /\ q_pc' = "raised"
    /\ UNCHANGED <<mode, avars, rvars, ep_task, q_messages, q_max_tokens, q_vtask, q_task, q_inputs,
                   q_predicts, q_res, q_reconf, uivars, clivars>>

NextQuery == QValidate \/ QReconfigure \/ QPredict \/ QRespond

SpecQuery == InitQuery /\ [][NextQuery]_vars

-----------------------------------------------------------------------------
(* src/src/ui/chatbot.py: the callbacks of DatabricksChatbot.              *)

(* str.strip(); the model's only whitespace is the space.                  *)
RECURSIVE lstrip(_)
lstrip(s) ==
    IF s # "" /\ SubSeq(s, 1, 1) = " " THEN lstrip(SubSeq(s, 2, Len(s))) ELSE s

RECURSIVE rstrip(_)
rstrip(s) ==
    IF s # "" /\ SubSeq(s, Len(s), Len(s)) = " "
    THEN rstrip(SubSeq(s, 1, Len(s) - 1)) ELSE s

strip(s) == rstrip(lstrip(s))

(* A callback output: a new value, or dash.no_update.                      *)
Upd(v) == [upd |-> TRUE, val |-> v]
no_update == [upd |-> FALSE]
Apply(old, out) == IF out.upd THEN out.val ELSE old

TypeName(v) ==
    CASE v.t = "str" -> "str"
      [] v.t = "none" -> "NoneType"
      [] v.t = "int" -> "int"
      [] v.t = "list" -> "list"
      [] v.t = "dict" -> "dict"

(* _format_message_content: the element shown for one message.  A content  *)
(* that is truthy and not a string has no split method.                    *)
format_message_content(content) ==
    IF ~Truthy(content) THEN Ok([kind |-> "span", text |-> "(empty message)"])
    ELSE IF ~IsStr(content)
    THEN Raise("'" \o TypeName(content) \o "' object has no attribute 'split'")
    ELSE Ok([kind |-> "div", text |-> content.s])

(* _format_chat_display: one message container per turn, in order.         *)
RECURSIVE format_chat_display(_)
format_chat_display(history) ==
    IF history = <<>> THEN Ok(<<>>)
    ELSE LET msg == Head(history)
             formatted_content == format_message_content(msg.content)
             rest == format_chat_display(Tail(history))
         IN IF ~formatted_content.ok THEN formatted_content
            ELSE IF ~rest.ok THEN rest
            ELSE Ok(<<[className |-> "message-container " \o msg.role \o "-container",
                       child |-> formatted_content.val]>> \o rest.val)

(* _create_typing_indicator                                                *)
typing_indicator ==
    [className |-> "message-container assistant-container",
     child |-> [kind |-> "typing", text |-> "AI is thinking..."]]

TriggerOn == PyDict([trigger |-> TRUE])

(* A submission branch without the test for blank input.                  *)
handle_user_input_blank_accepted(trigger_id, n_send, n_submit, n_clear, input_value, history) ==
    LET nothing == [store |-> no_update, display |-> no_update,
                    user_input |-> no_update, trigger |-> no_update,
                    send_disabled |-> no_update, status_class |-> no_update,
                    status_text |-> no_update]
    IN IF trigger_id = "clear-confirm" /\ n_clear # 0
       THEN Ok([store |-> Upd(<<>>), display |-> Upd(<<>>),
                user_input |-> no_update, trigger |-> no_update,
                send_disabled |-> no_update,
                status_class |-> Upd("status-indicator connected"),
                status_text |-> Upd("Connected")])
       ELSE IF trigger_id \in {"send-button", "user-input"} /\ (n_send # 0 \/ n_submit # 0)
       THEN LET text == IF IsStr(input_value) THEN strip(input_value.s) ELSE ""
                new_history == Append(history, Turn("user", PyStr(text)))
                chat_display == format_chat_display(new_history)
            IN IF ~chat_display.ok THEN chat_display
               ELSE Ok([store |-> Upd(new_history),
                        display |-> Upd(Append(chat_display.val, typing_indicator)),
                        user_input |-> Upd(PyStr("")),
                        trigger |-> Upd(TriggerOn),
                        send_disabled |-> Upd(TRUE),
                        status_class |-> Upd("status-indicator connected"),
                        status_text |-> Upd("Connected")])
       ELSE Ok(nothing)

(* A clear branch that also re-enables the send button.                    *)
handle_user_input_clear_enables_send(trigger_id, n_send, n_submit, n_clear, input_value, history) ==
    LET nothing == [store |-> no_update, display |-> no_update,
                    user_input |-> no_update, trigger |-> no_update,
                    send_disabled |-> no_update, status_class |-> no_update,
                    status_text |-> no_update]
    IN IF trigger_id = "clear-confirm" /\ n_clear # 0
       THEN Ok([store |-> Upd(<<>>), display |-> Upd(<<>>),
                user_input |-> no_update, trigger |-> no_update,
                send_disabled |-> Upd(FALSE),
                status_class |-> Upd("status-indicator connected"),
                status_text |-> Upd("Connected")])
       ELSE IF trigger_id \in {"send-button", "user-input"} /\ (n_send # 0 \/ n_submit # 0)
       THEN IF ~Truthy(input_value) \/ strip(input_value.s) = ""
            THEN Ok(nothing)
            ELSE LET new_history ==
                        Append(history, Turn("user", PyStr(strip(input_value.s))))
                     chat_display == format_chat_display(new_history)
                 IN IF ~chat_display.ok THEN chat_display
                    ELSE Ok([store |-> Upd(new_history),
                             display |-> Upd(Append(chat_display.val, typing_indicator)),
                             user_input |-> Upd(PyStr("")),
                             trigger |-> Upd(TriggerOn),
                             send_disabled |-> Upd(TRUE),
                             status_class |-> Upd("status-indicator connected"),
                             status_text |-> Upd("Connected")])
       ELSE Ok(nothing)

(* A clear branch that leaves the status indicator as it is.               *)
handle_user_input_clear_keeps_status(trigger_id, n_send, n_submit, n_clear, input_value, history) ==
    LET nothing == [store |-> no_update, display |-> no_update,
                    user_input |-> no_update, trigger |-> no_update,
                    send_disabled |-> no_update, status_class |-> no_update,
                    status_text |-> no_update]
    IN IF trigger_id = "clear-confirm" /\ n_clear # 0
       THEN Ok([store |-> Upd(<<>>), display |-> Upd(<<>>),
                user_input |-> no_update, trigger |-> no_update,
                send_disabled |-> no_update,
                status_class |-> no_update,
                status_text |-> no_update])
       ELSE IF trigger_id \in {"send-button", "user-input"} /\ (n_send # 0 \/ n_submit # 0)
       THEN IF ~Truthy(input_value) \/ strip(input_value.s) = ""
            THEN Ok(nothing)
            ELSE LET new_history ==
                        Append(history, Turn("user", PyStr(strip(input_value.s))))
                     chat_display == format_chat_display(new_history)
                 IN IF ~chat_display.ok THEN chat_display
                    ELSE Ok([store |-> Upd(new_history),
                             display |-> Upd(Append(chat_display.val, typing_indicator)),
                             user_input |-> Upd(PyStr("")),
                             trigger |-> Upd(TriggerOn),
                             send_disabled |-> Upd(TRUE),
                             status_class |-> Upd("status-indicator connected"),
                             status_text |-> Upd("Connected")])
       ELSE Ok(nothing)

(* handle_user_input: the seven outputs for one invocation, or the         *)
(* exception that leaves the callback.                                     *)
handle_user_input(trigger_id, n_send, n_submit, n_clear, input_value, history) ==
    LET nothing == [store |-> no_update, display |-> no_update,
                    user_input |-> no_update, trigger |-> no_update,
                    send_disabled |-> no_update, status_class |-> no_update,
                    status_text |-> no_update]
    IN IF trigger_id = "clear-confirm" /\ n_clear # 0
       THEN Ok([store |-> Upd(<<>>), display |-> Upd(<<>>),
                user_input |-> no_update, trigger |-> no_update,
                send_disabled |-> no_update,
                status_class |-> Upd("status-indicator connected"),
                status_text |-> Upd("Connected")])
       ELSE IF trigger_id \in {"send-button", "user-input"} /\ (n_send # 0 \/ n_submit # 0)
       THEN IF ~Truthy(input_value) \/ strip(input_value.s) = ""
            THEN Ok(nothing)
            ELSE LET new_history ==
                        Append(history, Turn("user", PyStr(strip(input_value.s))))
                     chat_display == format_chat_display(new_history)
                 IN IF ~chat_display.ok THEN chat_display
                    ELSE Ok([store |-> Upd(new_history),
                             display |-> Upd(Append(chat_display.val, typing_indicator)),
                             user_input |-> Upd(PyStr("")),
                             trigger |-> Upd(TriggerOn),
                             send_disabled |-> Upd(TRUE),
                             status_class |-> Upd("status-indicator connected"),
                             status_text |-> Upd("Connected")])
       ELSE Ok(nothing)

(* toggle_clear_modal                                                      *)
toggle_clear_modal(trigger_id) ==
    IF trigger_id = "clear-button" THEN TRUE
    ELSE IF trigger_id \in {"clear-cancel", "clear-confirm"} THEN FALSE
    ELSE FALSE

(* A comprehension that collects the assistant messages newest first.      *)
RECURSIVE assistant_messages_newest_first(_)
assistant_messages_newest_first(msgs) ==
    IF msgs = <<>> THEN Ok(<<>>)
    ELSE LET msg == Head(msgs)
             rest == assistant_messages_newest_first(Tail(msgs))
         IN IF ~IsDict(msg)
            THEN Raise("'" \o TypeName(msg) \o "' object has no attribute 'get'")
            ELSE IF ~rest.ok THEN rest
            ELSE IF Has(msg, "role") /\ msg.d.role = PyStr("assistant")
            THEN Ok(rest.val \o <<msg>>)
            ELSE rest

(* msg.get('role') for each msg of a list, as the list comprehension of    *)
(* line 226 does it: the first element that is no dict raises.             *)
RECURSIVE assistant_messages(_)
assistant_messages(msgs) ==
    IF msgs = <<>> THEN Ok(<<>>)
    ELSE LET msg == Head(msgs)
             rest == assistant_messages(Tail(msgs))
         IN IF ~IsDict(msg)
            THEN Raise("'" \o TypeName(msg) \o "' object has no attribute 'get'")
            ELSE IF ~rest.ok THEN rest
            ELSE IF Has(msg, "role") /\ msg.d.role = PyStr("assistant")
            THEN Ok(<<msg>> \o rest.val)
            ELSE rest

(* Iterating response['messages'], whatever its type.                      *)
iterate_messages(v) ==
    CASE v.t = "list" -> assistant_messages(v.items)
      [] v.t = "none" -> Raise("'NoneType' object is not iterable")
      [] v.t = "int" -> Raise("'int' object is not iterable")
      [] v.t = "str" ->
            IF v.s = "" THEN Ok(<<>>)
            ELSE Raise("'str' object has no attribute 'get'")
      [] v.t = "dict" ->
            IF DOMAIN v.d = {} THEN Ok(<<>>)
            ELSE Raise("'str' object has no attribute 'get'")

(* Lines 223-238: the reply taken from what query_endpoint returned.       *)
extract_reply(response) ==
    IF IsDict(response) /\ Has(response, "messages")
    THEN LET am == iterate_messages(response.d.messages)
         IN IF ~am.ok THEN am
            ELSE IF am.val # <<>>
            THEN GetItem(am.val[Len(am.val)], "content")
            ELSE IF Truthy(response.d.messages)
            THEN LET first == response.d.messages.items[1]
                 IN IF Has(first, "content") THEN Ok(first.d.content)
                    ELSE Ok(PyStr(Str(first)))
            ELSE Ok(PyStr(Str(response)))
    ELSE IF IsDict(response) /\ Has(response, "content")
    THEN Ok(response.d.content)
    ELSE IF IsDict(response) /\ Has(response, "choices")
    THEN LET m == first_choice_message(response)
         IN IF m.ok THEN GetItem(m.val, "content") ELSE m
    ELSE Ok(PyStr(Str(response)))

(* _call_model_endpoint: query, then extract; any exception is re-raised.  *)
call_model_endpoint(messages, max_tokens, env) ==
    LET response == query_endpoint(EndpointName, messages, max_tokens, env)
    IN IF ~response.ok THEN response ELSE extract_reply(response.val)

(* A guard that looks at the trigger alone.                                *)
assistant_guard_trigger_only(trig, history) ==
    /\ Truthy(trig)
    /\ IsDict(trig)
    /\ Has(trig, "trigger")
    /\ trig.d.trigger

(* handle_assistant_response up to the endpoint call, lines 150-157:       *)
(* TRUE when it goes on to call the endpoint.                              *)
assistant_guard(trig, history) ==
    /\ Truthy(trig)
    /\ IsDict(trig)
    /\ Has(trig, "trigger")
    /\ trig.d.trigger
    /\ history # <<>>
    /\ history[Len(history)].role = "user"

(* An except clause that sets the status and appends nothing.              *)
assistant_response_status_only(history, call) ==
    LET new_history ==
            IF call.ok THEN Append(history, Turn("assistant", call.val)) ELSE history
        chat_display == format_chat_display(new_history)
    IN IF ~chat_display.ok THEN chat_display
       ELSE Ok([store |-> Upd(new_history),
                display |-> Upd(chat_display.val),
                send_disabled |-> Upd(FALSE),
                status_class |-> Upd(IF call.ok THEN "status-indicator connected"
                                     ELSE "status-indicator error"),
                status_text |-> Upd(IF call.ok THEN "Connected" ELSE "Error")])

(* An except clause that shows the bare exception text.                    *)
assistant_response_bare_error(history, call) ==
    LET new_history ==
            IF call.ok THEN Append(history, Turn("assistant", call.val))
            ELSE Append(history, Turn("assistant", PyStr(call.exc)))
        chat_display == format_chat_display(new_history)
    IN IF ~chat_display.ok THEN chat_display
       ELSE Ok([store |-> Upd(new_history),
                display |-> Upd(chat_display.val),
                send_disabled |-> Upd(FALSE),
                status_class |-> Upd(IF call.ok THEN "status-indicator connected"
                                     ELSE "status-indicator error"),
                status_text |-> Upd(IF call.ok THEN "Connected" ELSE "Error")])

(* handle_assistant_response from the endpoint call on, lines 159-178:     *)
(* the five outputs, or the exception that leaves the callback.            *)
assistant_response(history, call) ==
    LET new_history ==
            IF call.ok THEN Append(history, Turn("assistant", call.val))
            ELSE Append(history, Turn("assistant", PyStr("Error: " \o call.exc)))
        chat_display == format_chat_display(new_history)
    IN IF ~chat_display.ok THEN chat_display
       ELSE Ok([store |-> Upd(new_history),
                display |-> Upd(chat_display.val),
                send_disabled |-> Upd(FALSE),
                status_class |-> Upd(IF call.ok THEN "status-indicator connected"
                                     ELSE "status-indicator error"),
                status_text |-> Upd(IF call.ok THEN "Connected" ELSE "Error")])

-----------------------------------------------------------------------------
(* One browser session of the component.  Dash runs a callback with the    *)
(* Input and State values the browser holds when the callback is           *)
(* triggered and applies its outputs when the server answers; invocations  *)
(* may overlap, and answers may arrive in any order.                       *)

(* What the user may have in the text box.                                 *)
InputTexts == {PyStr(" hi "), PyStr("  ")}

(* What the platform may do during one endpoint call made by the UI.       *)
ChatOk(res) ==
    [vfetch |-> Ok("agent/v1/chat"), fetch |-> Ok("agent/v1/chat"), predict |-> Ok(res)]

UIEnvs ==
    { ChatOk(PyDict([messages |-> PyList(<<Msg("assistant", "hello")>>)])),
      ChatOk(PyDict([messages |->
          PyList(<<PyDict([role |-> PyStr("assistant"),
                           content |-> PyList(<<TextPart("hello")>>)])>>)])),
      [vfetch |-> Ok("agent/v1/chat"), fetch |-> Ok("agent/v1/chat"),
       predict |-> Raise("connection timed out")] }

Remove(seq, i) == SubSeq(seq, 1, i - 1) \o SubSeq(seq, i + 1, Len(seq))

InitUI ==
    /\ mode = "ui"
    /\ UIIdle
    /\ QIdle
    /\ CliIdle
    /\ RIdle
    /\ AIdle

(* The text box when the user submits: what it held, or what the user has  *)
(* typed into it since.                                                    *)
Typed == InputTexts \cup {user_input}

Request(trigger_id, n_send, n_submit, n_clear, text) ==
    [trigger_id |-> trigger_id, send_clicks |-> n_send, user_submit |-> n_submit,
     clear_clicks |-> n_clear, user_input |-> text, chat_history |-> store]

(* The user clicks Send: handle_user_input is triggered by n_clicks.  A    *)
(* disabled button takes no click.                                         *)
ClickSend ==
    /\ mode = "ui"
    /\ ~send_disabled
    /\ send_clicks + user_submit + clear_clicks < MaxClicks
    /\ Len(reqs) + Len(calls) < MaxPending
    /\ send_clicks' = send_clicks + 1
    /\ \E text \in Typed :
          /\ user_input' = text
          /\ reqs' = Append(reqs, Request("send-button", send_clicks + 1, user_submit,
                                          clear_clicks, text))
    /\ UNCHANGED <<mode, avars, rvars, qvars, clivars, store, display, trigger,
                   send_disabled, status_class, status_text, modal_open,
                   user_submit, clear_clicks, calls, last>>

(* The user presses Enter in the text box: handle_user_input is triggered  *)
(* by n_submit.                                                            *)
PressEnter ==
    /\ mode = "ui"
    /\ send_clicks + user_submit + clear_clicks < MaxClicks
    /\ Len(reqs) + Len(calls) < MaxPending
    /\ user_submit' = user_submit + 1
    /\ \E text \in Typed :
          /\ user_input' = text
          /\ reqs' = Append(reqs, Request("user-input", send_clicks, user_submit + 1,
                                          clear_clicks, text))
    /\ UNCHANGED <<mode, avars, rvars, qvars, clivars, store, display, trigger,
                   send_disabled, status_class, status_text, modal_open,
                   send_clicks, clear_clicks, calls, last>>

(* The user clicks Clear: toggle_clear_modal opens the dialog.             *)
ClickClear ==
    /\ mode = "ui"
    /\ ~modal_open
    /\ send_clicks + user_submit + clear_clicks < MaxClicks
    /\ modal_open' = toggle_clear_modal("clear-button")
    /\ UNCHANGED <<mode, avars, rvars, qvars, clivars, store, display, user_input, trigger,
                   send_disabled, status_class, status_text, send_clicks,
                   user_submit, clear_clicks, reqs, calls, last>>

(* The user clicks Cancel in the dialog.                                   *)
ClickCancel ==
    /\ mode = "ui"
    /\ modal_open
    /\ modal_open' = toggle_clear_modal("clear-cancel")
    /\ UNCHANGED <<mode, avars, rvars, qvars, clivars, store, display, user_input, trigger,
                   send_disabled, status_class, status_text, send_clicks,
                   user_submit, clear_clicks, reqs, calls, last>>

(* The user clicks Clear Chat in the dialog: toggle_clear_modal closes it  *)
(* and handle_user_input is triggered by clear-confirm.n_clicks.           *)
ClickConfirm ==
    /\ mode = "ui"
    /\ modal_open
    /\ send_clicks + user_submit + clear_clicks < MaxClicks
    /\ Len(reqs) + Len(calls) < MaxPending
    /\ clear_clicks' = clear_clicks + 1
    /\ modal_open' = toggle_clear_modal("clear-confirm")
    /\ reqs' = Append(reqs, Request("clear-confirm", send_clicks, user_submit,
                                    clear_clicks + 1, user_input))
    /\ UNCHANGED <<mode, avars, rvars, qvars, clivars, store, display, user_input, trigger,
                   send_disabled, status_class, status_text, send_clicks,
                   user_submit, calls, last>>

(* The server answers an invocation of handle_user_input and the browser   *)
(* applies its outputs.  A change of assistant-trigger triggers            *)
(* handle_assistant_response, which runs up to its endpoint call.          *)
UserInputReturns ==
    /\ mode = "ui"
    /\ \E i \in 1..Len(reqs) :
          LET r == reqs[i]
              res == handle_user_input(r.trigger_id, r.send_clicks, r.user_submit,
                                       r.clear_clicks, r.user_input, r.chat_history)
              out == res.val
              new_store == Apply(store, out.store)
              new_trigger == Apply(trigger, out.trigger)
          IN /\ reqs' = Remove(reqs, i)
             /\ IF ~res.ok
                THEN UNCHANGED <<store, display, user_input, trigger, send_disabled,
                                 status_class, status_text, calls>>
                ELSE /\ store' = new_store
                     /\ display' = Apply(display, out.display)
                     /\ user_input' = Apply(user_input, out.user_input)
                     /\ trigger' = new_trigger
                     /\ send_disabled' = Apply(send_disabled, out.send_disabled)
                     /\ status_class' = Apply(status_class, out.status_class)
                     /\ status_text' = Apply(status_text, out.status_text)
                     /\ calls' = IF out.trigger.upd /\ assistant_guard(new_trigger, new_store)
                                 THEN Append(calls, [chat_history |-> new_store])
                                 ELSE calls
    /\ UNCHANGED <<mode, avars, rvars, qvars, clivars, modal_open, send_clicks, user_submit,
                   clear_clicks, last>>

(* The endpoint call of an invocation of handle_assistant_response ends;   *)
(* the callback finishes and the browser applies its outputs, or the       *)
(* callback raises and nothing is applied.                                 *)
AssistantReturns ==
    /\ mode = "ui"
    /\ \E i \in 1..Len(calls) : \E env \in UIEnvs :
          LET c == calls[i]
              call == call_model_endpoint(c.chat_history, UI_MAX_TOKENS, env)
              res == assistant_response(c.chat_history, call)
          IN /\ calls' = Remove(calls, i)
             /\ IF ~res.ok
                THEN UNCHANGED <<store, display, send_disabled, status_class, status_text>>
                ELSE /\ store' = Apply(store, res.val.store)
                     /\ display' = Apply(display, res.val.display)
                     /\ send_disabled' = Apply(send_disabled, res.val.send_disabled)
                     /\ status_class' = Apply(status_class, res.val.status_class)
                     /\ status_text' = Apply(status_text, res.val.status_text)
             /\ last' = [t |-> "call", chat_history |-> c.chat_history, call |-> call,
                         raised |-> ~res.ok]
    /\ UNCHANGED <<mode, avars, rvars, qvars, clivars, user_input, trigger, modal_open, send_clicks,
                   user_submit, clear_clicks, reqs>>

NextUI ==
    \/ ClickSend
    \/ PressEnter
    \/ ClickClear
    \/ ClickCancel
    \/ ClickConfirm
    \/ UserInputReturns
    \/ AssistantReturns

SpecUI == InitUI /\ [][NextUI]_vars

-----------------------------------------------------------------------------
(* src/src/cli/main.py: interactive_chat_mode.                             *)

UpperCase == "ABCDEFGHIJKLMNOPQRSTUVWXYZ"
LowerCase == "abcdefghijklmnopqrstuvwxyz"

LowerChar(c) ==
    IF \E i \in 1..Len(UpperCase) : SubSeq(UpperCase, i, i) = c
    THEN LET i == CHOOSE i \in 1..Len(UpperCase) : SubSeq(UpperCase, i, i) = c
         IN SubSeq(LowerCase, i, i)
    ELSE c

(* str.lower()                                                             *)
RECURSIVE lower(_)
lower(s) ==
    IF s = "" THEN "" ELSE LowerChar(SubSeq(s, 1, 1)) \o lower(SubSeq(s, 2, Len(s)))

(* What the operator may type at the prompt.                               *)
CliInputs == {"quit", "Exit", "Q", "hi", " yo ", "  ", ""}

(* What the platform may do during one endpoint call made by the CLI.      *)
CliEnvs ==
    { ChatOk(PyDict([messages |-> PyList(<<Msg("assistant", "hello")>>)])),
      ChatOk(PyDict([messages |-> PyList(<<Msg("user", "hi")>>)])),
      ChatOk(PyDict([messages |-> PyList(<<PyDict([role |-> PyStr("assistant")])>>)])),
      ChatOk(PyDict([content |-> PyStr("hello")])),
      ChatOk(PyDict([choices |-> PyList(<<>>)])),
      ChatOk(PyDict([unexpected |-> PyStr("shape")])),
      ChatOk(PyStr("plain text")),
      [vfetch |-> Ok("agent/v1/chat"), fetch |-> Ok("agent/v1/chat"),
       predict |-> Raise("connection timed out")],
      [vfetch |-> Ok("llm/v1/embeddings"), fetch |-> Ok("llm/v1/embeddings"),
       predict |-> Raise("connection timed out")] }

(* Lines 40-71 get as far as calling predict.                              *)
ReachesPredict(env) ==
    /\ env.vfetch.ok
    /\ validate_endpoint_task_type(env.vfetch.val).ok
    /\ env.fetch.ok

(* A loop that queries without recording the user's turn.                  *)
cli_add_user_skipped(history, text) == history

(* Line 135: chat_history.append({'role': 'user', 'content': user_input})  *)
cli_add_user(history, text) == Append(history, Turn("user", PyStr(text)))

InitCLI ==
    /\ mode = "cli"
    /\ cli_pc = "prompt"
    /\ cli_input = Unset
    /\ chat_history = <<>>
    /\ cli_out = "-"
    /\ cli_response = Unset
    /\ cli_raw = Unset
    /\ cli_turns = 0
    /\ QIdle
    /\ UIIdle
    /\ RIdle
    /\ AIdle

(* Lines 125-135: one answer to Prompt.ask.                                *)
CliPrompt ==
    /\ mode = "cli"
    /\ cli_pc = "prompt"
    /\ cli_turns < MaxCliTurns
    /\ cli_turns' = cli_turns + 1
    /\ UNCHANGED cli_raw
    /\ \E text \in CliInputs :
          /\ cli_input' = PyStr(text)
          /\ IF lower(text) \in {"quit", "exit", "q"}
             THEN /\ cli_out' = "Goodbye!"
                  /\ cli_pc' = "done"
                  /\ UNCHANGED <<chat_history, cli_response>>
             ELSE IF strip(text) = ""
             THEN UNCHANGED <<cli_pc, chat_history, cli_out, cli_response>>
             ELSE /\ chat_history' = cli_add_user(chat_history, text)
                  /\ cli_pc' = "query"
                  /\ cli_response' = Unset
                  /\ UNCHANGED cli_out
    /\ UNCHANGED <<mode, avars, rvars, qvars, uivars>>

(* Lines 144-158 and 163-164: the endpoint call and what follows it.       *)
(* The value is <<chat_history, printed>> after the step.                  *)
cli_respond(history, response) ==
    IF ~response.ok THEN <<history, "Error: " \o response.exc>>
    ELSE IF IsDict(response.val) /\ Has(response.val, "messages")
    THEN LET am == iterate_messages(response.val.d.messages)
         IN IF ~am.ok THEN <<history, "Error: " \o am.exc>>
            ELSE IF am.val # <<>>
            THEN LET c == GetItem(am.val[Len(am.val)], "content")
                 IN IF ~c.ok THEN <<history, "Error: " \o c.exc>>
                    ELSE <<Append(history, Turn("assistant", c.val)), "AI: " \o Str(c.val)>>
            ELSE <<history, "No assistant response received">>
    ELSE <<history, "Unexpected response format">>

(* A loop whose handler for endpoint errors ends the session.              *)
CliQuery_abort_on_error ==
    /\ mode = "cli"
    /\ cli_pc = "query"
    /\ \E env \in CliEnvs :
          LET response == query_endpoint(EndpointName, chat_history, CLI_MAX_TOKENS, env)
              after == cli_respond(chat_history, response)
          IN /\ chat_history' = after[1]
             /\ cli_out' = after[2]
             /\ cli_response' = response
             /\ cli_raw' = IF ReachesPredict(env) THEN env.predict ELSE Unset
             /\ cli_pc' = IF response.ok THEN "prompt" ELSE "done"
    /\ UNCHANGED <<mode, avars, rvars, qvars, uivars, cli_input, cli_turns>>

(* Lines 137-158 and 163-164: one endpoint call of the loop; whatever      *)
(* happens, the loop goes back to the prompt.                              *)
CliQuery ==
    /\ mode = "cli"
    /\ cli_pc = "query"
    /\ \E env \in CliEnvs :
          LET response == query_endpoint(EndpointName, chat_history, CLI_MAX_TOKENS, env)
              after == cli_respond(chat_history, response)
          IN /\ chat_history' = after[1]
             /\ cli_out' = after[2]
             /\ cli_response' = response
             /\ cli_raw' = IF ReachesPredict(env) THEN env.predict ELSE Unset
    /\ cli_pc' = "prompt"
    /\ UNCHANGED <<mode, avars, rvars, qvars, uivars, cli_input, cli_turns>>

(* Lines 160-162: KeyboardInterrupt, at the prompt or during the call.     *)
CliInterrupt ==
    /\ mode = "cli"
    /\ cli_pc \in {"prompt", "query"}
    /\ cli_out' = "Chat session ended by user"
    /\ cli_pc' = "done"
    /\ UNCHANGED <<mode, avars, rvars, qvars, uivars, cli_input, chat_history, cli_response,
                   cli_raw, cli_turns>>

NextCLI == CliPrompt \/ CliQuery \/ CliInterrupt

SpecCLI == InitCLI /\ [][NextCLI]_vars

-----------------------------------------------------------------------------
(* The reply the callers take from one value returned by query_endpoint:   *)
(* _call_model_endpoint lines 223-238 and the CLI loop lines 147-158.      *)

(* Values query_endpoint may return: a dict with key messages, with or     *)
(* without a content beside it, or a dict with key content.                *)
ReturnedValues ==
    {PyDict([messages |-> m]) : m \in MessagesVals}
    \cup {PyDict([messages |-> m, content |-> PyStr("beside")]) :
             m \in {PyList(<<>>), PyList(<<Msg("user", "hi")>>)}}
    \cup {PyDict([content |-> c]) : c \in ContentVals}

(* The conversation the CLI holds when the call returns.                   *)
ReplyHistory == <<Turn("user", PyStr("hi"))>>

InitReply ==
    /\ mode = "reply"
    /\ r_response \in ReturnedValues
    /\ r_ui = Unset
    /\ r_cli = Unset
    /\ QIdle
    /\ UIIdle
    /\ CliIdle
    /\ AIdle

(* _call_model_endpoint takes the reply from the returned value.           *)
ReplyUI ==
    /\ mode = "reply"
    /\ r_ui = Unset
    /\ r_ui' = extract_reply(r_response)
    /\ UNCHANGED <<mode, avars, qvars, uivars, clivars, r_response, r_cli>>

(* The CLI loop takes the reply from the returned value.                   *)
ReplyCLI ==
    /\ mode = "reply"
    /\ r_cli = Unset
    /\ r_cli' = cli_respond(ReplyHistory, Ok(r_response))
    /\ UNCHANGED <<mode, avars, qvars, uivars, clivars, r_response, r_ui>>

NextReply == ReplyUI \/ ReplyCLI

SpecReply == InitReply /\ [][NextReply]_vars

-----------------------------------------------------------------------------
(* One invocation of handle_assistant_response on the Input and State      *)
(* values the browser may send it.                                         *)

(* assistant-trigger.data as the callback may receive it.                  *)
TriggerValues ==
    {PyNone, PyDict(<<>>), PyDict([trigger |-> FALSE]), TriggerOn,
     PyDict([other |-> TRUE])}

(* chat-history-store.data as the callback may receive it.                 *)
StoredHistories ==
    { <<>>,
      <<Turn("user", PyStr("hi"))>>,
      <<Turn("assistant", PyStr("hello"))>>,
      <<Turn("user", PyStr("hi")), Turn("assistant", PyStr("hello"))>>,
      <<Turn("user", PyStr("hi")), Turn("user", PyStr("yo"))>>,
      <<Turn("user", PyStr("hi")), Turn("assistant", PyStr("hello")),
        Turn("user", PyStr("yo"))>> }

InitRespond ==
    /\ mode = "respond"
    /\ store \in StoredHistories
    /\ display = format_chat_display(store).val
    /\ user_input = PyStr("")
    /\ trigger \in TriggerValues
    /\ send_disabled \in BOOLEAN
    /\ status_class = "status-indicator connected"
    /\ status_text = "Connected"
    /\ modal_open = FALSE
    /\ send_clicks = 0
    /\ user_submit = 0
    /\ clear_clicks = 0
    /\ reqs = <<>>
    /\ calls = <<>>
    /\ last = NoCall
    /\ QIdle
    /\ CliIdle
    /\ RIdle
    /\ AIdle

(* handle_assistant_response, lines 149-178, run on the trigger and the    *)
(* stored conversation; the browser applies what it returns.               *)
AssistantCallback ==
    /\ mode = "respond"
    /\ mode' = "responded"
    /\ IF ~assistant_guard(trigger, store)
       THEN UNCHANGED <<store, display, send_disabled, status_class, status_text, last>>
       ELSE \E env \in UIEnvs :
               LET call == call_model_endpoint(store, UI_MAX_TOKENS, env)
                   res == assistant_response(store, call)
               IN /\ IF ~res.ok
                     THEN UNCHANGED <<store, display, send_disabled, status_class,
                                      status_text>>
                     ELSE /\ store' = Apply(store, res.val.store)
                          /\ display' = Apply(display, res.val.display)
                          /\ send_disabled' = Apply(send_disabled, res.val.send_disabled)
                          /\ status_class' = Apply(status_class, res.val.status_class)
                          /\ status_text' = Apply(status_text, res.val.status_text)
                  /\ last' = [t |-> "call", chat_history |-> store, call |-> call,
                              raised |-> ~res.ok]
    /\ UNCHANGED <<avars, rvars, qvars, clivars, user_input, trigger, modal_open,
                   send_clicks, user_submit, clear_clicks, reqs, calls>>

SpecRespond == InitRespond /\ [][AssistantCallback]_vars

-----------------------------------------------------------------------------
(* src/app.py: the module body that runs when the application starts, and  *)
(* the browser session that follows when the chatbot is mounted.           *)

PyBool(b) == [t |-> "bool", b |-> b]

(* What the environment may hold for SERVING_ENDPOINT.                     *)
EndpointSettings == {PyNone, PyStr(""), PyStr(EndpointName)}

(* Lines 19-31: the message of the AssertionError, by is_databricks_env.   *)
MissingEndpointMessages ==
    {"Unable to determine serving endpoint for Databricks deployment.",
     "Unable to determine serving endpoint for local development."}

InitApp ==
    /\ mode = "startup"
    /\ serving_endpoint \in EndpointSettings
    /\ endpoint_supported = Unset
    /\ app_layout = "none"
    /\ app_out = Unset
    /\ QIdle
    /\ UIIdle
    /\ CliIdle
    /\ RIdle

(* A start-up that mounts the chatbot whatever the endpoint's task type.   *)
Startup_chat_regardless ==
    /\ mode = "startup"
    /\ IF ~Truthy(serving_endpoint)
       THEN /\ \E msg \in MissingEndpointMessages : app_out' = Raise(msg)
            /\ mode' = "aborted"
            /\ UNCHANGED <<endpoint_supported, app_layout>>
       ELSE \E t \in TaskTypes : \E f \in FetchOutcomes(t) :
               IF ~f.ok
               THEN /\ app_out' = f
                    /\ mode' = "aborted"
                    /\ UNCHANGED <<endpoint_supported, app_layout>>
               ELSE /\ endpoint_supported' = PyBool(is_endpoint_supported(f.val))
                    /\ UNCHANGED app_out
                    /\ app_layout' = "chat"
                    /\ mode' = "ui"
    /\ UNCHANGED <<serving_endpoint, qvars, uivars, clivars, rvars>>

(* Lines 16-35 and 116-144: without SERVING_ENDPOINT the module raises;    *)
(* otherwise is_endpoint_supported fetches the task type, and the layout   *)
(* is the notice or the tabs holding the DatabricksChatbot component.      *)
Startup ==
    /\ mode = "startup"
    /\ IF ~Truthy(serving_endpoint)
       THEN /\ \E msg \in MissingEndpointMessages : app_out' = Raise(msg)
            /\ mode' = "aborted"
            /\ UNCHANGED <<endpoint_supported, app_layout>>
       ELSE \E t \in TaskTypes : \E f \in FetchOutcomes(t) :
               IF ~f.ok
               THEN /\ app_out' = f
                    /\ mode' = "aborted"
                    /\ UNCHANGED <<endpoint_supported, app_layout>>
               ELSE /\ endpoint_supported' = PyBool(is_endpoint_supported(f.val))
                    /\ UNCHANGED app_out
                    /\ IF is_endpoint_supported(f.val)
                       THEN /\ app_layout' = "chat"
                            /\ mode' = "ui"
                       ELSE /\ app_layout' = "notice"
                            /\ mode' = "notice"
    /\ UNCHANGED <<serving_endpoint, qvars, uivars, clivars, rvars>>

SpecApp == InitApp /\ [][Startup \/ NextUI]_vars

-----------------------------------------------------------------------------
(* Any of the programs.                                                    *)

Init == InitQuery \/ InitUI \/ InitCLI \/ InitReply \/ InitApp \/ InitRespond

Next ==
    \/ QValidate
    \/ QReconfigure
    \/ QPredict
    \/ QRespond
    \/ ClickSend
    \/ PressEnter
    \/ ClickClear
    \/ ClickCancel
    \/ ClickConfirm
    \/ UserInputReturns
    \/ AssistantReturns
    \/ CliPrompt
    \/ CliQuery
    \/ CliInterrupt
    \/ ReplyUI
    \/ ReplyCLI
    \/ Startup
    \/ AssistantCallback

Spec == Init /\ [][Next]_vars


(* The UI or the CLI.                                                      *)
SpecChat == (InitUI \/ InitCLI) /\ [][NextUI \/ NextCLI]_vars

-----------------------------------------------------------------------------
(* Properties.                                                             *)

KeyPriority == <<"messages", "choices", "content", "output">>

PresentKeys(res) == {k \in FourKeys : Has(res, k)}

(* The first of the four keys, in priority order, that res holds.          *)
FirstKey(res) ==
    KeyPriority[CHOOSE i \in 1..Len(KeyPriority) :
                    /\ Has(res, KeyPriority[i])
                    /\ \A j \in 1..(i - 1) : ~Has(res, KeyPriority[j])]

(* res with every one of the four keys but k removed.                      *)
OnlyKey(res, k) == PyDict([x \in (DOMAIN res.d \ (FourKeys \ {k})) |-> res.d[x]])

HandledResponse == q_branch # "-"

(* C1: when the raw response is a dict holding more than one of messages,  *)
(* choices, content, output, query_endpoint uses only the first key        *)
(* present in that order: what the call yields is what it yields for the   *)
(* same response without the keys of lower priority.                       *)
C1_LowerKeysIgnored ==
    (HandledResponse /\ IsDict(q_res) /\ Cardinality(PresentKeys(q_res)) >= 2) =>
        LET r == handle_response(OnlyKey(q_res, FirstKey(q_res)))
        IN q_out = IF r.ok THEN r ELSE FailedToCall(EndpointName, r)

(* C2: the response handling of query_endpoint never raises: once predict  *)
(* has returned a value, the call returns a result.                        *)
C2_HandlingNeverRaises == HandledResponse => (q_pc = "returned" /\ q_out.ok)

(* C3: in the UI at most one endpoint call is in flight at any time.       *)
C3_OneCallInFlight == Len(calls) <= 1

EndsWithUser(history) ==
    history # <<>> /\ history[Len(history)].role = "user"

(* C4: every conversation passed to query_endpoint, by the UI and by the   *)
(* CLI, is non-empty and ends with a user turn.                            *)
C4_QueryEndsWithUser ==
    /\ \A i \in 1..Len(calls) : EndsWithUser(calls[i].chat_history)
    /\ cli_pc = "query" => EndsWithUser(chat_history)

C4_Witness ==
    /\ calls # <<>>
    /\ Len(calls[1].chat_history) >= 3
    /\ calls[1].chat_history[2].role = "assistant"

(* A step in which an invocation of handle_assistant_response ended.       *)
AssistantEnded == Len(calls') < Len(calls)

(* C5: when handle_assistant_response has called the endpoint and          *)
(* returned, the conversation it writes to the store is the one it was     *)
(* given plus exactly one turn, an assistant turn, whether the call        *)
(* succeeded or failed.                                                    *)
C5_OneAssistantTurn ==
    [][(AssistantEnded /\ ~last'.raised) =>
          /\ Len(store') = Len(last'.chat_history) + 1
          /\ SubSeq(store', 1, Len(store') - 1) = last'.chat_history
          /\ store'[Len(store')].role = "assistant"]_vars

C5_Witness ==
    /\ last.t = "call"
    /\ ~last.raised
    /\ last.call.ok
    /\ store = Append(last.chat_history, Turn("assistant", last.call.val))

(* C6: when the endpoint call raises, handle_assistant_response appends    *)
(* exactly one assistant turn whose content is 'Error: ' followed by the   *)
(* exception message, sets the status to error with text 'Error', and      *)
(* returns.                                                                *)
C6_ErrorTurn ==
    [][(AssistantEnded /\ ~last'.call.ok) =>
          /\ ~last'.raised
          /\ store' = Append(last'.chat_history,
                             Turn("assistant", PyStr("Error: " \o last'.call.exc)))
          /\ status_class' = "status-indicator error"
          /\ status_text' = "Error"]_vars

C6_Witness ==
    /\ last.t = "call"
    /\ ~last.call.ok
    /\ status_text = "Error"
    /\ store # <<>>
    /\ store[Len(store)].content = PyStr("Error: " \o last.call.exc)

(* The UI when the server answers every callback it was sent.              *)
SpecUILive == SpecUI /\ WF_vars(UserInputReturns) /\ WF_vars(AssistantReturns)

(* C7: after every accepted submission the send button is eventually       *)
(* re-enabled, the endpoint call returning or failing: a disabled send     *)
(* button leads to an enabled one.                                         *)
C7_ButtonReenabled == send_disabled ~> ~send_disabled

IsPrefix(a, b) == Len(a) <= Len(b) /\ SubSeq(b, 1, Len(a)) = a

(* C8: the stored conversation is append-only except for clear: every      *)
(* value written to the store is the empty list or has the previously      *)
(* stored conversation as a prefix.                                        *)
C8_AppendOnly == [][store' = <<>> \/ IsPrefix(store, store')]_vars

ChatTaskTypes == {"agent/v1/chat", "agent/v2/chat", "llm/v1/chat"}
SupervisorTaskTypes == {"agent/v1/supervisor", "agent/v2/supervisor"}
ResponsesTaskTypes == {"agent/v1/responses"}

RejectedAsUnsupported == q_pc = "raised" /\ q_out = Raise(UnsupportedMessage)

(* C9: is_endpoint_supported is true exactly for the six task types        *)
(* agent/v1/chat, agent/v2/chat, llm/v1/chat, agent/v1/supervisor,         *)
(* agent/v2/supervisor, agent/v1/responses; the chat types get the         *)
(* standard-chat envelope, the supervisor types the supervisor envelope    *)
(* and agent/v1/responses the response-style envelope.                     *)
C9_AllowList ==
    /\ q_vtask # NoTask =>
          (RejectedAsUnsupported <=>
             q_vtask \notin (ChatTaskTypes \cup SupervisorTaskTypes \cup ResponsesTaskTypes))
    /\ q_task \in ChatTaskTypes => DOMAIN q_inputs = {"messages", "max_tokens"}
    /\ q_task \in SupervisorTaskTypes =>
          DOMAIN q_inputs = {"messages", "max_tokens", "stream"}
    /\ q_task \in ResponsesTaskTypes =>
          DOMAIN q_inputs = {"input", "max_output_tokens", "stream"}

C9_Witness ==
    /\ q_vtask = "agent/v2/supervisor"
    /\ q_task = "agent/v1/responses"
    /\ q_predicts = 1
    /\ "input" \in DOMAIN q_inputs

(* C10: when the endpoint's task type is not in the allow-list,            *)
(* query_endpoint fails before building an envelope and predict is not     *)
(* invoked.                                                                *)
C10_UnsupportedFailsFast ==
    (q_vtask # NoTask /\ q_vtask \notin supported_task_types) =>
        /\ RejectedAsUnsupported
        /\ q_inputs = <<>>
        /\ q_predicts = 0
        /\ q_res = Unset

C10_Witness ==
    /\ q_vtask = "llm/v1/embeddings"
    /\ q_pc = "raised"
    /\ q_predicts = 0

(* C11: for every supported task type, conversation and token budget the   *)
(* envelope handed to predict is exactly {messages, max_tokens} for the    *)
(* chat types, {messages, max_tokens, stream: false} for the supervisor    *)
(* types and {input, max_output_tokens, stream: false} for                 *)
(* agent/v1/responses, with no other key.                                  *)
C11_ExactEnvelope ==
    q_predicts > 0 =>
        /\ q_task \in ChatTaskTypes =>
              q_inputs = [messages |-> q_messages, max_tokens |-> q_max_tokens]
        /\ q_task \in SupervisorTaskTypes =>
              q_inputs = [messages |-> q_messages, max_tokens |-> q_max_tokens,
                          stream |-> FALSE]
        /\ q_task \in ResponsesTaskTypes =>
              q_inputs = [input |-> q_messages, max_output_tokens |-> q_max_tokens,
                          stream |-> FALSE]

C11_Witness ==
    /\ q_predicts = 1
    /\ q_task = "llm/v1/chat"
    /\ q_max_tokens = TEST_MAX_TOKENS
    /\ Len(q_messages) = 3
    /\ DOMAIN q_inputs = {"messages", "max_tokens"}

(* C12: for a dict response with key messages, query_endpoint returns the  *)
(* same turns in the same order with the same role and content in every    *)
(* turn, none added and none dropped.                                      *)
C12_MessagesRoundTrip ==
    (HandledResponse /\ IsDict(q_res) /\ Has(q_res, "messages")) =>
        /\ q_pc = "returned"
        /\ q_out.ok
        /\ IsDict(q_out.val)
        /\ Has(q_out.val, "messages")
        /\ q_out.val.d.messages = q_res.d.messages

C12_Witness ==
    /\ q_pc = "returned"
    /\ IsDict(q_res)
    /\ Has(q_res, "messages")
    /\ q_res.d.messages = PyList(<<Msg("user", "hi"), Msg("assistant", "hello")>>)
    /\ q_out.val.d.messages.items[2] = Msg("assistant", "hello")

(* A non-empty list of dicts that each hold role and content.              *)
IsTurnList(v) ==
    /\ IsList(v)
    /\ v.items # <<>>
    /\ \A i \in 1..Len(v.items) :
          /\ IsDict(v.items[i])
          /\ Has(v.items[i], "role")
          /\ Has(v.items[i], "content")

WithoutKey(res, k) == PyDict([x \in (DOMAIN res.d \ {k}) |-> res.d[x]])

(* C13: the messages branch handles a dict response only when its messages *)
(* value is a non-empty sequence of {role, content} mappings; a dict whose *)
(* messages value is empty or not such a sequence is handled by the branch *)
(* that would handle it without the key messages.                          *)
C13_MessagesBranchGuard ==
    (HandledResponse /\ IsDict(q_res) /\ Has(q_res, "messages")) =>
        q_branch = IF IsTurnList(q_res.d.messages) THEN "messages"
                   ELSE Branch(WithoutKey(q_res, "messages"))

(* C14: for a dict response without key messages and with key choices the  *)
(* result is exactly one turn, equal to choices[0].message, whatever the   *)
(* choices after the first and the other keys are.                         *)
C14_FirstChoiceOnly ==
    (HandledResponse /\ IsDict(q_res) /\ ~Has(q_res, "messages") /\ Has(q_res, "choices")) =>
        /\ q_pc = "returned"
        /\ q_out.ok
        /\ DOMAIN q_out.val.d = {"messages"}
        /\ Len(q_out.val.d.messages.items) = 1
        /\ q_out.val.d.messages.items[1] = q_res.d.choices.items[1].d.message

(* An output item that yields a turn: its content is a non-empty list      *)
(* whose first element is a dict with key text.                            *)
YieldsTurn(item) ==
    /\ IsDict(item)
    /\ Has(item, "content")
    /\ IsList(item.d.content)
    /\ item.d.content.items # <<>>
    /\ IsDict(item.d.content.items[1])
    /\ Has(item.d.content.items[1], "text")

TurnOfItem(item) ==
    PyDict([role |-> IF Has(item, "role") THEN item.d.role ELSE PyStr("assistant"),
            content |-> item.d.content.items[1].d.text])

(* The turns of the items that yield one, in the items' order.             *)
ExpectedOutputTurns(items) ==
    LET yielding == SelectSeq(items, YieldsTurn)
    IN [i \in 1..Len(yielding) |-> TurnOfItem(yielding[i])]

(* C15: for a dict response with none of messages, choices, content and    *)
(* with output a list, the result holds one turn per output item that      *)
(* yields one, in the items' order, with the item's role (assistant when   *)
(* absent) and the first content element's text; when no item yields a     *)
(* turn the result is a single content value, the string rendering of the  *)
(* whole response.                                                         *)
C15_OutputTurns ==
    (/\ HandledResponse
     /\ IsDict(q_res)
     /\ PresentKeys(q_res) = {"output"}
     /\ IsList(q_res.d.output)) =>
        LET expected == ExpectedOutputTurns(q_res.d.output.items)
        IN /\ q_pc = "returned"
           /\ q_out = IF expected # <<>>
                      THEN Ok(PyDict([messages |-> PyList(expected)]))
                      ELSE Ok(PyDict([content |-> PyStr(Str(q_res))]))

C15_Witness ==
    /\ q_pc = "returned"
    /\ IsDict(q_res)
    /\ PresentKeys(q_res) = {"output"}
    /\ IsList(q_res.d.output)
    /\ Len(q_res.d.output.items) = 2
    /\ IsDict(q_res.d.output.items[1])
    /\ ~Has(q_res.d.output.items[1], "role")
    /\ q_out.val = PyDict([messages |-> PyList(<<Msg("assistant", "bye"),
                                                 Msg("assistant", "hello")>>)])

(* A response with no recognized shape: a non-dict value, a dict with none *)
(* of the keys messages, choices, content, output, or a dict whose only    *)
(* such key is an output that is not a list.                               *)
Unrecognized(res) ==
    \/ ~IsDict(res)
    \/ PresentKeys(res) = {}
    \/ PresentKeys(res) = {"output"} /\ ~IsList(res.d.output)

(* A step in which the CLI's endpoint call returned to the loop.           *)
CliCallEnded == cli_pc = "query" /\ cli_pc' = "prompt"

(* C16: for a response with no recognized shape the result is a single     *)
(* assistant turn whose content is the non-empty string rendering of the   *)
(* raw response, and the caller appends this turn to the conversation.     *)
C16_FallbackTurnAppended ==
    [][(CliCallEnded /\ cli_raw' # Unset /\ cli_raw'.ok /\ Unrecognized(cli_raw'.val)) =>
          /\ Str(cli_raw'.val) # ""
          /\ chat_history' =
                Append(chat_history, Turn("assistant", PyStr(Str(cli_raw'.val))))]_vars

(* The returned value holds a normalized turn sequence under messages.     *)
HoldsTurns(response) ==
    /\ IsDict(response)
    /\ Has(response, "messages")
    /\ IsList(response.d.messages)
    /\ \A i \in 1..Len(response.d.messages.items) :
          /\ IsDict(response.d.messages.items[i])
          /\ Has(response.d.messages.items[i], "role")
          /\ Has(response.d.messages.items[i], "content")

AssistantIndexes(turns) == {i \in 1..Len(turns) : turns[i].d.role = PyStr("assistant")}

Max(S) == CHOOSE x \in S : \A y \in S : y <= x

(* C17: for every normalized turn sequence with at least one assistant     *)
(* turn, the reply the UI takes and the reply the CLI loop appends and     *)
(* prints is the content of the last assistant turn, whatever turns come   *)
(* before or after it.                                                     *)
C17_LastAssistantWins ==
    (HoldsTurns(r_response) /\ AssistantIndexes(r_response.d.messages.items) # {}) =>
        LET turns == r_response.d.messages.items
            reply == turns[Max(AssistantIndexes(turns))].d.content
        IN /\ r_ui # Unset => r_ui = Ok(reply)
           /\ r_cli # Unset =>
                 r_cli = <<Append(ReplyHistory, Turn("assistant", reply)),
                           "AI: " \o Str(reply)>>

C17_Witness ==
    /\ r_response = PyDict([messages |->
                              PyList(<<Msg("assistant", "hello"), Msg("assistant", "bye")>>)])
    /\ r_ui = Ok(PyStr("bye"))
    /\ r_cli # Unset
    /\ r_cli[2] = "AI: bye"

(* C18: reply extraction on an empty normalized turn sequence returns the  *)
(* literal placeholder "No response received".                             *)
C18_EmptyPlaceholder ==
    (/\ IsDict(r_response)
     /\ Has(r_response, "messages")
     /\ r_response.d.messages = PyList(<<>>)
     /\ r_ui # Unset) =>
        r_ui = Ok(PyStr("No response received"))

(* A non-empty list of dicts none of which has role assistant.             *)
NoAssistantTurn(response) ==
    /\ IsDict(response)
    /\ Has(response, "messages")
    /\ IsList(response.d.messages)
    /\ response.d.messages.items # <<>>
    /\ \A i \in 1..Len(response.d.messages.items) :
          LET msg == response.d.messages.items[i]
          IN IsDict(msg) /\ ~(Has(msg, "role") /\ msg.d.role = PyStr("assistant"))

(* The first element's content, or its string rendering when it has none.  *)
FirstTurnReply(response) ==
    LET first == response.d.messages.items[1]
    IN IF Has(first, "content") THEN first.d.content ELSE PyStr(Str(first))

(* C19: on a non-empty normalized turn sequence with no assistant turn the *)
(* reply taken by the UI and by the CLI loop is the first turn's content,  *)
(* or the string rendering of the first element when it has no content,    *)
(* never a later turn's content.                                           *)
C19_FirstTurnFallback ==
    NoAssistantTurn(r_response) =>
        /\ r_ui # Unset => r_ui = Ok(FirstTurnReply(r_response))
        /\ r_cli # Unset =>
              r_cli = <<Append(ReplyHistory, Turn("assistant", FirstTurnReply(r_response))),
                        "AI: " \o Str(FirstTurnReply(r_response))>>

(* C20: _query_endpoint never mutates its inputs: every step of the call,   *)
(* on every normalization branch and on failure, leaves the conversation   *)
(* passed as messages and the raw value predict returned as they were.     *)
C20_InputsUntouched ==
    [][mode = "query" =>
          /\ q_messages' = q_messages
          /\ q_res # Unset => q_res' = q_res]_vars

(* The call has ended, normalized or failed, after predict returned a      *)
(* value that normalization rewrites, for a conversation of three turns.   *)
C20_Witness ==
    /\ q_pc \in {"returned", "raised"}
    /\ q_res # Unset
    /\ q_branch \in {"choices", "output"}
    /\ Len(q_messages) = 3

(* The inputs that end the session, line 127.                              *)
QuitWords == {"quit", "exit", "q"}

(* C21: in the CLI chat a failure of query_endpoint is printed and the     *)
(* loop prompts again; the session ends only on the input quit, exit or q  *)
(* in any case, or on a keyboard interrupt.                                *)
C21_ErrorsDoNotEndSession ==
    [][mode = "cli" =>
          /\ (cli_pc = "query" /\ cli_response' # Unset /\ ~cli_response'.ok) =>
                /\ cli_pc' = "prompt"
                /\ cli_out' = "Error: " \o cli_response'.exc
          /\ (cli_pc # "done" /\ cli_pc' = "done") =>
                \/ /\ cli_pc = "prompt"
                   /\ cli_input' # Unset
                   /\ lower(cli_input'.s) \in QuitWords
                   /\ cli_out' = "Goodbye!"
                \/ cli_out' = "Chat session ended by user"]_vars

(* An unsupported endpoint made the call fail and the loop is prompting.   *)
C21_Witness ==
    /\ cli_pc = "prompt"
    /\ cli_response # Unset
    /\ ~cli_response.ok
    /\ cli_out = "Error: " \o UnsupportedMessage
    /\ cli_turns < MaxCliTurns

(* The component has taken no submission and made no endpoint call.        *)
ChatUntouched ==
    /\ store = <<>>
    /\ reqs = <<>>
    /\ calls = <<>>
    /\ send_clicks = 0
    /\ user_submit = 0
    /\ last = NoCall

ConfigurationError ==
    \/ ~Truthy(serving_endpoint)
    \/ endpoint_supported = PyBool(FALSE)

(* C22: a configuration error keeps the chat away: without                 *)
(* SERVING_ENDPOINT start-up aborts with an AssertionError; with an        *)
(* endpoint of unsupported task type the application starts and serves     *)
(* the notice instead of the chatbot; in neither case does the UI take a   *)
(* chat message or query the endpoint.                                     *)
C22_NoChatOnConfigurationError ==
    /\ ConfigurationError => mode # "ui" /\ app_layout # "chat" /\ ChatUntouched
    /\ (~Truthy(serving_endpoint) /\ mode # "startup") =>
          mode = "aborted" /\ app_out # Unset /\ ~app_out.ok
    /\ endpoint_supported = PyBool(FALSE) =>
          mode = "notice" /\ app_layout = "notice" /\ app_out = Unset

(* The application is serving the notice for an unsupported endpoint.      *)
C22_Witness ==
    /\ mode = "notice"
    /\ serving_endpoint = PyStr(EndpointName)
    /\ endpoint_supported = PyBool(FALSE)

(* C22 as stated: on a configuration error start-up aborts.                *)
C22_StartupAborts ==
    (ConfigurationError /\ mode # "startup") => mode = "aborted"

(* C23: in the CLI chat, after each request-response cycle chat_history    *)
(* ends with an assistant turn and never holds two consecutive user        *)
(* turns, whatever the response shape and whether or not the call failed.  *)
C23_CliEndsWithAssistant ==
    /\ (cli_pc = "prompt" /\ chat_history # <<>>) =>
          chat_history[Len(chat_history)].role = "assistant"
    /\ \A i \in 1..(Len(chat_history) - 1) :
          ~(chat_history[i].role = "user" /\ chat_history[i + 1].role = "user")

(* C24: within one call of query_endpoint the task type that chooses the   *)
(* envelope is the one that was validated, so predict is never invoked     *)
(* for a task type outside the allow-list, even if the endpoint's task     *)
(* type changes between the two fetches.                                   *)
C24_DialectDeterminedOnce ==
    q_predicts > 0 =>
        /\ q_task = q_vtask
        /\ is_endpoint_supported(q_task)

(* A confirmed clear has been answered and has emptied the store.          *)
ClearedAndEmpty ==
    /\ mode = "ui"
    /\ store = <<>>
    /\ clear_clicks > 0
    /\ \A i \in 1..Len(reqs) : reqs[i].trigger_id # "clear-confirm"

(* C25: in the UI, once a confirmed clear has emptied the stored           *)
(* conversation it stays empty until the next accepted user submission:    *)
(* the response to a request in flight at the clear does not write the     *)
(* pre-clear turns back.                                                   *)
C25_ClearedStaysEmpty ==
    [][(ClearedAndEmpty /\ store' # <<>>) =>
          store'[Len(store')].role = "user"]_vars

StatusError == status_class = "status-indicator error" /\ status_text = "Error"
StatusConnected == status_class = "status-indicator connected" /\ status_text = "Connected"

IsErrorTurn(turn) ==
    /\ turn.role = "assistant"
    /\ IsStr(turn.content)
    /\ Len(turn.content.s) >= 7
    /\ SubSeq(turn.content.s, 1, 7) = "Error: "

(* The request answered by this step, when the step answers one.           *)
Answered(i) == i \in 1..Len(reqs) /\ reqs' = Remove(reqs, i)

(* An invocation handle_user_input accepts as a submission.                *)
IsSubmission(r) ==
    /\ r.trigger_id \in {"send-button", "user-input"}
    /\ Truthy(r.user_input)
    /\ strip(r.user_input.s) # ""

(* C26: in the UI, whenever the status indicator shows the error state     *)
(* the stored conversation is non-empty and ends with an assistant turn    *)
(* whose content starts with "Error: "; a confirmed clear, an accepted     *)
(* submission and a successful response each set the status to Connected.  *)
C26_ErrorStatusMatchesStore ==
    /\ [](mode = "ui" =>
            /\ status_class = "status-indicator error" <=> status_text = "Error"
            /\ StatusError => store # <<>> /\ IsErrorTurn(store[Len(store)]))
    /\ [][mode = "ui" =>
            /\ \A i \in 1..Len(reqs) :
                  (Answered(i) /\ (reqs[i].trigger_id = "clear-confirm" \/ IsSubmission(reqs[i])))
                      => StatusConnected'
            /\ (Len(calls') < Len(calls) /\ last'.call.ok /\ ~last'.raised)
                      => StatusConnected']_vars

(* An error response has been shown and then cleared away.                 *)
C26_Witness ==
    /\ mode = "ui"
    /\ last # NoCall
    /\ ~last.call.ok
    /\ clear_clicks > 0
    /\ store = <<>>
    /\ StatusConnected

(* The trigger is set.                                                     *)
TriggerSet(trig) == trig = PyDict([trigger |-> TRUE])

(* C27: handle_assistant_response calls the endpoint only when the         *)
(* trigger is set and the stored conversation is non-empty with a last     *)
(* turn of role user; otherwise it makes no endpoint call and leaves the   *)
(* stored conversation, the display, the send button and the status as     *)
(* they were.                                                              *)
C27_GuardedEndpointCall ==
    [][(mode = "respond" /\ mode' = "responded") =>
          IF TriggerSet(trigger) /\ store # <<>> /\ store[Len(store)].role = "user"
          THEN last' # NoCall /\ last'.chat_history = store
          ELSE /\ last' = NoCall
               /\ UNCHANGED <<store, display, send_disabled, status_class,
                              status_text>>]_vars

(* The callback has returned without a call: the trigger was set but the   *)
(* stored conversation ended with an assistant turn.                       *)
C27_Witness ==
    /\ mode = "responded"
    /\ TriggerSet(trigger)
    /\ store # <<>>
    /\ store[Len(store)].role = "assistant"
    /\ last = NoCall

(* C28: in the UI an accepted submission appends exactly one user turn     *)
(* holding the stripped input, leaves the earlier turns as they were,      *)
(* empties the input box, sets the assistant trigger, disables the send    *)
(* button and sets the status to Connected.                                *)
C28_AcceptedSubmission ==
    [][mode = "ui" =>
          \A i \in 1..Len(reqs) :
              (Answered(i) /\ IsSubmission(reqs[i])) =>
                  /\ store' = Append(store, Turn("user", PyStr(strip(reqs[i].user_input.s))))
                  /\ user_input' = PyStr("")
                  /\ trigger' = TriggerOn
                  /\ send_disabled'
                  /\ StatusConnected']_vars

(* An invocation triggered by Send or Enter on blank input.                *)
IsBlankSubmission(r) ==
    /\ r.trigger_id \in {"send-button", "user-input"}
    /\ \/ r.user_input = PyNone
       \/ IsStr(r.user_input) /\ strip(r.user_input.s) = ""

(* C29: in the UI a Send click or Enter with input that is missing, empty  *)
(* or only whitespace changes nothing: no turn is appended, the trigger    *)
(* is not set, no endpoint call starts, and the send button, the input     *)
(* text and the status stay as they were.  The CLI loop skips blank input  *)
(* without appending a turn or querying.                                   *)
C29_BlankInputIgnored ==
    [][/\ mode = "ui" =>
             \A i \in 1..Len(reqs) :
                 (Answered(i) /\ IsBlankSubmission(reqs[i])) =>
                     UNCHANGED <<store, display, trigger, calls, send_disabled,
                                 user_input, status_class, status_text>>
       /\ (mode = "cli" /\ cli_turns' # cli_turns /\ strip(cli_input'.s) = "") =>
             /\ cli_pc' = "prompt"
             /\ UNCHANGED <<chat_history, cli_response, cli_out>>]_vars

(* Blank submissions of each kind have been answered and the component is  *)
(* as it was at the start.                                                 *)
C29_Witness ==
    /\ mode = "ui"
    /\ send_clicks > 0
    /\ user_submit > 0
    /\ reqs = <<>>
    /\ store = <<>>
    /\ trigger = PyNone
    /\ calls = <<>>
    /\ ~send_disabled
    /\ user_input = PyStr("  ")

(* C30: in the UI a confirmed clear resets the stored conversation and     *)
(* the display to empty and the status to Connected, and leaves the input  *)
(* text, the assistant trigger and the send button's disabled state as     *)
(* they were; the conversation is emptied only by clear-confirm, and       *)
(* opening the clear dialog or cancelling it only opens and closes it.     *)
C30_ClearOnlyByConfirm ==
    [][mode = "ui" =>
          /\ \A i \in 1..Len(reqs) :
                (Answered(i) /\ reqs[i].trigger_id = "clear-confirm") =>
                    /\ store' = <<>>
                    /\ display' = <<>>
                    /\ StatusConnected'
                    /\ UNCHANGED <<user_input, trigger, send_disabled, calls>>
          /\ (store # <<>> /\ store' = <<>>) =>
                \E i \in 1..Len(reqs) :
                    Answered(i) /\ reqs[i].trigger_id = "clear-confirm"
          /\ (modal_open' # modal_open /\ clear_clicks' = clear_clicks) =>
                UNCHANGED <<store, display, user_input, trigger, send_disabled,
                            status_class, status_text, reqs, calls>>
          /\ (modal_open' # modal_open /\ clear_clicks' # clear_clicks) =>
                /\ ~modal_open'
                /\ UNCHANGED <<store, display, user_input, trigger, send_disabled,
                               status_class, status_text, calls>>]_vars

(* A confirmed clear was answered while an endpoint call was running: the  *)
(* store is empty, the button still disabled and the trigger still set.    *)
C30_Witness ==
    /\ mode = "ui"
    /\ clear_clicks > 0
    /\ \A i \in 1..Len(reqs) : reqs[i].trigger_id # "clear-confirm"
    /\ store = <<>>
    /\ display = <<>>
    /\ send_disabled
    /\ trigger = TriggerOn
    /\ calls # <<>>

====
